---- MODULE Spec2Model ----
(***************************************************************************)
(* A model of the ShopSenseAI frontend hooks:                              *)
(*   - useMessages        (src/src/hooks/useMessages.ts): the message      *)
(*     sync hook, its polling effect, loadMessages, sendMessage,           *)
(*     markAsRead and getUnreadCount, together with the backend they       *)
(*     talk to;                                                            *)
(*   - OpenPhoneService   (src/unnamed/part_000): the message transport   *)
(*     client, sendSMS and getMessages over the provider's HTTP API;       *)
(*   - useGoogleCalendar  (src/unnamed/part_001): the calendar stub,       *)
(*     createCalendarEvent, getEvents and checkForConflicts over the       *)
(*     locally persisted event list.                                       *)
(* Every awaited network call is split at its await: the step that issues  *)
(* the request and the step that runs the continuation are separate        *)
(* actions, so calls interleave as they do on the JavaScript event loop.   *)
(***************************************************************************)
EXTENDS Integers, Sequences, FiniteSets, TLC

VARIABLES
    \* ---- useMessages ----
    backend,      \* the backend's message list (GET /api/messages returns it)
    messages,     \* useState<Message[]>([])
    isLoading,    \* useState(true)
    isSending,    \* useState(false)
    phase,        \* "rendered" (effect not run yet), "active", "inactive"
    loads,        \* loadMessages calls in flight, in the order they were issued
    sends,        \* sendMessage calls in flight, in the order they were issued
    marks,        \* markAsRead calls in flight, in the order they were issued
    ret,          \* what the operation that completed last gave its caller
    \* ---- useGoogleCalendar ----
    tz,             \* the runtime's local time zone: local time = UTC + tz hours
    now,            \* Date.now()
    isInitialized,  \* useState(false)
    isLoadingCal,   \* the calendar hook's isLoading, useState(false)
    store,          \* localStorage 'google-calendar-events', parsed
    creates,        \* createCalendarEvent calls waiting at the simulated API call
    calRet,         \* what the calendar step just taken returned to its caller
    \* ---- OpenPhoneService ----
    transport,      \* sendSMS / getMessages calls awaiting their axios request
    tRet            \* what the transport call that settled last gave its caller

msgVars == <<backend, messages, isLoading, isSending, phase, loads, sends, marks, ret>>
smsVars == <<transport, tRet>>
calVars == <<tz, now, isInitialized, isLoadingCal, store, creates, calRet>>
vars == <<msgVars, calVars, smsVars>>

----------------------------------------------------------------------------
(* Bounds of the model *)

\* the backend holds at most this many messages
MaxBackend == 2
\* at most this many hook calls (loads, sends, marks) are in flight at once
MaxInFlight == 2
\* booking dates are the days 1..MaxDate
MaxDate == 2
\* the persisted list holds at most this many events
MaxEvents == 2
\* Date.now() runs over 0..MaxClock
MaxClock == 2
\* at most this many transport calls await the provider at once
MaxTransport == 2

----------------------------------------------------------------------------
(* Messages (src/src/types/index.ts) *)

\* A Message record.  `read?: boolean` is optional: a message without the
\* field is a record without it.  body stands for every other field.
Msg(id, direction, readFlag) ==
    IF readFlag = "absent"
    THEN [id |-> id, direction |-> direction, body |-> id]
    ELSE [id |-> id, direction |-> direction, body |-> id,
          read |-> (readFlag = "true")]

\* JavaScript truthiness of msg.read
IsRead(m) == "read" \in DOMAIN m /\ m.read

\* { ...msg, read: true }
SpreadRead(m) ==
    [f \in DOMAIN m \cup {"read"} |-> IF f = "read" THEN TRUE ELSE m[f]]

RemoveAt(s, i) == [k \in 1..(Len(s) - 1) |-> IF k < i THEN s[k] ELSE s[k + 1]]

IdsOf(list) == {list[k].id : k \in 1..Len(list)}

\* a variant that forgets the direction test
getUnreadCountAnyDirection(list) ==
    Cardinality({k \in 1..Len(list) : ~IsRead(list[k])})

\* a variant that tests msg.read === false, missing the absent flag
getUnreadCountExplicitFalse(list) ==
    Cardinality({k \in 1..Len(list) :
                    /\ list[k].direction = "inbound"
                    /\ "read" \in DOMAIN list[k]
                    /\ list[k].read = FALSE})

\* messages.filter(msg => msg.direction === 'inbound' && !msg.read).length
getUnreadCount(list) ==
    Cardinality({k \in 1..Len(list) :
                    list[k].direction = "inbound" /\ ~IsRead(list[k])})

\* a variant that keeps the list when the load fails
loadMessagesKeepOnError(cur, outcome, payload) ==
    IF outcome = "ok" THEN payload ELSE cur

\* the list loadMessages hands to setMessages, by the outcome of the GET:
\*   "ok"      response.ok and data.messages is the array
\*   "nofield" response.ok and data.messages is absent  (data.messages || [])
\*   "bad"     a non-2xx status
\*   "neterr"  fetch or response.json() threw
loadMessagesResult(cur, outcome, payload) ==
    IF outcome = "ok" THEN payload ELSE <<>>

\* messages.map(msg => msg.id === messageId ? { ...msg, read: true } : msg)
markAsReadMap(list, messageId) ==
    [k \in 1..Len(list) |->
        IF list[k].id = messageId THEN SpreadRead(list[k]) ELSE list[k]]

\* a variant that patches the list only when the server accepted
markAsReadPatchesIfOk(outcome) == outcome = "ok"

\* whether markAsRead reaches setMessages: the body of its try block runs to
\* the end unless fetch itself throws; response.ok is never looked at
markAsReadPatches(outcome) == outcome # "neterr"

LoadOutcomes == {"ok", "nofield", "bad", "neterr"}
PostOutcomes == {"ok", "bad", "neterr"}

InFlight == Len(loads) + Len(sends) + Len(marks)

\* what the call that completed last gave its caller: the operation, the
\* outcome of its request, whether the call raised, and the toast it showed
NoRet == [op |-> "none", http |-> "none", raised |-> FALSE, toast |-> "none"]

\* ghost bookkeeping of the sends in flight: another call has written the list
Disturb(ss) == [k \in 1..Len(ss) |-> [ss[k] EXCEPT !.quiet = FALSE]]

\* the inbound messages of a list with their read state
InboundView(list) ==
    {<<list[k].id, IsRead(list[k])>> : k \in {j \in 1..Len(list) : list[j].direction = "inbound"}}

----------------------------------------------------------------------------
(* The backend: an external collaborator.  It only ever appends messages   *)
(* and sets read flags.                                                    *)

\* the read field of a message the backend has just stored: the backend
\* writes read: false on some messages and leaves the field out of others
\* (here: by the parity of the id, so that both shapes occur)
FreshFlag(id) == IF id % 2 = 1 THEN "absent" ELSE "false"

\* an inbound SMS arrives
BackendReceive ==
    /\ Len(backend) < MaxBackend
    /\ backend' = Append(backend, Msg(Len(backend) + 1, "inbound", FreshFlag(Len(backend) + 1)))
    /\ UNCHANGED <<messages, isLoading, isSending, phase, loads, sends, marks, ret, calVars, smsVars>>

\* POST /api/messages/reply accepted: the backend records the outbound message
BackendReply(b) ==
    IF Len(b) < MaxBackend THEN Append(b, Msg(Len(b) + 1, "outbound", FreshFlag(Len(b) + 1))) ELSE b

\* POST /api/messages/{id}/read accepted
BackendMarkRead(b, id) ==
    [k \in 1..Len(b) |-> IF b[k].id = id THEN SpreadRead(b[k]) ELSE b[k]]

----------------------------------------------------------------------------
(* useEffect: the polling lifecycle *)

\* a loadMessages call awaiting fetch: st is "fetch" until the backend has
\* answered with its list, "resp" while that answer travels back in payload
\* byTimer: the call was made by the interval, not by the effect or the UI
NewLoad(byTimer) == [byTimer |-> byTimer, st |-> "fetch", payload |-> <<>>]

\* the effect runs after the first render: loadMessages(), then setInterval
Activate ==
    /\ phase = "rendered"
    /\ phase' = "active"
    /\ loads' = Append(loads, NewLoad(FALSE))
    /\ UNCHANGED <<backend, messages, isLoading, isSending, sends, marks, ret, calVars, smsVars>>

\* a variant that skips a tick while a load is in flight
TickSerialized ==
    /\ phase = "active"
    /\ loads = <<>>
    /\ InFlight < MaxInFlight
    /\ loads' = Append(loads, NewLoad(TRUE))
    /\ UNCHANGED <<backend, messages, isLoading, isSending, phase, sends, marks, ret, calVars, smsVars>>

\* a variant whose cleanup does not clear the interval
TickNeverCleared ==
    /\ phase \in {"active", "inactive"}
    /\ InFlight < MaxInFlight
    /\ loads' = Append(loads, NewLoad(TRUE))
    /\ UNCHANGED <<backend, messages, isLoading, isSending, phase, sends, marks, ret, calVars, smsVars>>

\* the interval fires: loadMessages()
Tick ==
    /\ phase = "active"
    /\ InFlight < MaxInFlight
    /\ loads' = Append(loads, NewLoad(TRUE))
    /\ UNCHANGED <<backend, messages, isLoading, isSending, phase, sends, marks, ret, calVars, smsVars>>

\* the effect's cleanup: clearInterval(interval)
Deactivate ==
    /\ phase = "active"
    /\ phase' = "inactive"
    /\ UNCHANGED <<backend, messages, isLoading, isSending, loads, sends, marks, ret, calVars, smsVars>>

\* refreshMessages: loadMessages called by the UI
Refresh ==
    /\ phase = "active"
    /\ InFlight < MaxInFlight
    /\ loads' = Append(loads, NewLoad(FALSE))
    /\ UNCHANGED <<backend, messages, isLoading, isSending, phase, sends, marks, ret, calVars, smsVars>>

----------------------------------------------------------------------------
(* loadMessages *)

\* the backend answers the GET with 200 and { messages: [...] }
LoadServe(i) ==
    /\ loads[i].st = "fetch"
    /\ loads' = [loads EXCEPT ![i] = [@ EXCEPT !.st = "resp", !.payload = backend]]
    /\ UNCHANGED <<backend, messages, isLoading, isSending, phase, sends, marks, ret, calVars, smsVars>>

\* the continuation after the awaits, on a 200 whose body parsed:
\* setMessages(data.messages || []); finally setIsLoading(false)
LoadApply(i) ==
    /\ loads[i].st = "resp"
    /\ messages' = loadMessagesResult(messages, "ok", loads[i].payload)
    /\ isLoading' = FALSE
    /\ loads' = RemoveAt(loads, i)
    /\ sends' = Disturb(sends)
    /\ ret' = [NoRet EXCEPT !.op = "loadMessages", !.http = "ok"]
    /\ UNCHANGED <<backend, isSending, phase, marks, calVars, smsVars>>

\* a variant whose catch block rethrows
LoadEmptyRethrows(i, outcome) ==
    /\ outcome \in LoadOutcomes \ {"ok"}
    /\ messages' = loadMessagesResult(messages, outcome, <<>>)
    /\ isLoading' = FALSE
    /\ loads' = RemoveAt(loads, i)
    /\ sends' = Disturb(sends)
    /\ ret' = [NoRet EXCEPT !.op = "loadMessages", !.http = outcome,
                            !.raised = (outcome = "neterr")]
    /\ UNCHANGED <<backend, isSending, phase, marks, calVars, smsVars>>

\* the continuation on any other outcome: the body lacks the messages field
\* ("nofield"), the status is not 2xx ("bad"), or fetch or response.json()
\* threw ("neterr"); finally setIsLoading(false)
LoadEmpty(i, outcome) ==
    /\ outcome \in LoadOutcomes \ {"ok"}
    /\ messages' = loadMessagesResult(messages, outcome, <<>>)
    /\ isLoading' = FALSE
    /\ loads' = RemoveAt(loads, i)
    /\ sends' = Disturb(sends)
    /\ ret' = [NoRet EXCEPT !.op = "loadMessages", !.http = outcome]
    /\ UNCHANGED <<backend, isSending, phase, marks, calVars, smsVars>>

----------------------------------------------------------------------------
(* sendMessage *)

\* setIsSending(true), then the POST is issued.  view0, inb0 and quiet are
\* ghost fields, read by no action: the inbound messages and read states the
\* list and the backend showed when the call started, and whether no other
\* call has written the list since.
SendStart ==
    /\ phase = "active"
    /\ InFlight < MaxInFlight
    /\ isSending' = TRUE
    /\ sends' = Append(sends, [st |-> "post", payload |-> <<>>,
                               view0 |-> InboundView(messages),
                               inb0 |-> InboundView(backend),
                               quiet |-> TRUE])
    /\ UNCHANGED <<backend, messages, isLoading, phase, loads, marks, ret, calVars, smsVars>>

\* the POST returned 2xx: the backend holds the reply; loadMessages() is called
SendPostOk(i) ==
    /\ sends[i].st = "post"
    /\ backend' = BackendReply(backend)
    /\ sends' = [sends EXCEPT ![i] = [@ EXCEPT !.st = "fetch"]]
    /\ UNCHANGED <<messages, isLoading, isSending, phase, loads, marks, ret, calVars, smsVars>>

\* the POST returned non-2xx ("bad") or fetch threw ("neterr"):
\* catch: toast.error, throw error; finally: setIsSending(false)
SendPostFail(i, outcome) ==
    /\ sends[i].st = "post"
    /\ outcome \in {"bad", "neterr"}
    /\ isSending' = FALSE
    /\ sends' = RemoveAt(sends, i)
    /\ ret' = [NoRet EXCEPT !.op = "sendMessage", !.http = outcome,
                            !.raised = TRUE, !.toast = "error"]
    /\ UNCHANGED <<backend, messages, isLoading, phase, loads, marks, calVars, smsVars>>

\* the backend answers the reload's GET with 200 and { messages: [...] }
SendReloadServe(i) ==
    /\ sends[i].st = "fetch"
    /\ sends' = [sends EXCEPT ![i] = [@ EXCEPT !.st = "resp", !.payload = backend]]
    /\ UNCHANGED <<backend, messages, isLoading, isSending, phase, loads, marks, ret, calVars, smsVars>>

\* loadMessages' continuation (setMessages, setIsLoading(false)), which never
\* throws, then sendMessage's own: toast.success; finally setIsSending(false).
\* outcome is the reload's: "ok" needs the answer, the others do not.
SendReloadDone(i, outcome) ==
    /\ sends[i].st \in {"fetch", "resp"}
    /\ outcome = "ok" => sends[i].st = "resp"
    /\ messages' = loadMessagesResult(messages, outcome, sends[i].payload)
    /\ isLoading' = FALSE
    /\ isSending' = FALSE
    /\ sends' = Disturb(RemoveAt(sends, i))
    /\ ret' = [NoRet EXCEPT !.op = "sendMessage", !.http = "ok", !.toast = "success"]
    /\ UNCHANGED <<backend, phase, loads, marks, calVars, smsVars>>

----------------------------------------------------------------------------
(* markAsRead *)

\* the UI calls markAsRead for a message it shows; the call captures the
\* messages of the render it was made in; the POST is issued
MarkStart(messageId) ==
    /\ phase = "active"
    /\ messageId \in IdsOf(messages)
    /\ InFlight < MaxInFlight
    /\ marks' = Append(marks, [id |-> messageId, snap |-> messages])
    /\ UNCHANGED <<backend, messages, isLoading, isSending, phase, loads, sends, ret, calVars, smsVars>>

\* the POST returned ("ok": 2xx and the backend set the flag, "bad": non-2xx)
\* or fetch threw ("neterr"); the continuation patches the captured list
MarkReturn(i, outcome) ==
    /\ backend' = IF outcome = "ok" THEN BackendMarkRead(backend, marks[i].id) ELSE backend
    /\ messages' = IF markAsReadPatches(outcome)
                   THEN markAsReadMap(marks[i].snap, marks[i].id)
                   ELSE messages
    /\ marks' = RemoveAt(marks, i)
    /\ sends' = IF markAsReadPatches(outcome) THEN Disturb(sends) ELSE sends
    /\ ret' = [NoRet EXCEPT !.op = "markAsRead", !.http = outcome]
    /\ UNCHANGED <<isLoading, isSending, phase, loads, calVars, smsVars>>

----------------------------------------------------------------------------
(* useGoogleCalendar: dates and times.  An instant is a number of hours     *)
(* since day 0, 00:00 UTC.                                                  *)

HoursPerDay == 24

\* the time zones the hook is run in: Toronto (EST, the zone the events are
\* labelled with) and UTC
TzOffsets == {-5, 0}
Dates == 1..MaxDate
\* booking times, "HH:00"
Times == {9, 10, 20}
\* bookingData.duration: absent (<<>>) or a number of hours
BookingDurations == {<<>>, <<-1>>, <<0>>, <<2>>}
\* the duration handed to checkForConflicts, in hours
ConflictDurations == {1, 2, 3}

\* new Date(`${date}T${time}:00`): a date-time string without an offset is
\* read as local time
ParseLocal(date, time) == date * HoursPerDay + time - tz

\* Date.prototype.toISOString(): the UTC date and time of an instant
toISOString(instant) == [date |-> instant \div HoursPerDay, time |-> instant % HoursPerDay]

\* new Date(isoString): the instant of a UTC date-time string
ParseISO(iso) == iso.date * HoursPerDay + iso.time

\* bookingData.duration || 1
DurationOr1(duration) == IF duration = <<>> \/ duration[1] = 0 THEN 1 ELSE duration[1]

\* the event createCalendarEvent builds
BuildEvent(booking) ==
    LET startDateTime == ParseLocal(booking.date, booking.time)
        endDateTime == startDateTime + DurationOr1(booking.duration)
    IN  [id |-> now,
         start |-> toISOString(startDateTime),
         end |-> toISOString(endDateTime)]

\* whether getEvents' filter keeps an event:
\*   new Date(event.start.dateTime).toISOString().split('T')[0]
\*   eventDate >= startDate && eventDate <= endDate
InRange(event, startDate, endDate) ==
    LET eventDate == toISOString(ParseISO(event.start)).date
    IN  eventDate >= startDate /\ eventDate <= endDate

RECURSIVE Filter(_, _, _)
Filter(list, startDate, endDate) ==
    IF list = <<>> THEN <<>>
    ELSE IF InRange(Head(list), startDate, endDate)
         THEN <<Head(list)>> \o Filter(Tail(list), startDate, endDate)
         ELSE Filter(Tail(list), startDate, endDate)

\* getEvents(startDate, endDate) over the persisted list
getEvents(list, startDate, endDate) == Filter(list, startDate, endDate)

\* (proposedStart < eventEnd && proposedEnd > eventStart)
Overlaps(proposedStart, proposedEnd, event) ==
    proposedStart < ParseISO(event.end) /\ proposedEnd > ParseISO(event.start)

\* checkForConflicts(date, time, duration)
checkForConflicts(list, date, time, duration) ==
    LET events == getEvents(list, date, date)
        proposedStart == ParseLocal(date, time)
        proposedEnd == proposedStart + duration
    IN  \E k \in 1..Len(events) : Overlaps(proposedStart, proposedEnd, events[k])

NoCalRet == [op |-> "none"]

----------------------------------------------------------------------------
(* useGoogleCalendar: the hook *)

\* the effect: initializeGoogleCalendar() sets the readiness flag
Initialize ==
    /\ ~isInitialized
    /\ isInitialized' = TRUE
    /\ calRet' = NoCalRet
    /\ UNCHANGED <<tz, now, isLoadingCal, store, creates, msgVars, smsVars>>

\* time passes
ClockTick ==
    /\ now < MaxClock
    /\ now' = now + 1
    /\ calRet' = NoCalRet
    /\ UNCHANGED <<tz, isInitialized, isLoadingCal, store, creates, msgVars, smsVars>>

\* createCalendarEvent called before the readiness flag is set:
\* console.warn, return null
CreateNotReady(booking) ==
    /\ ~isInitialized
    /\ calRet' = [op |-> "createCalendarEvent", date |-> booking.date, event |-> <<>>]
    /\ UNCHANGED <<tz, now, isInitialized, isLoadingCal, store, creates, msgVars, smsVars>>

\* createCalendarEvent with a date or time new Date() cannot read:
\* setIsLoading(true); toISOString throws RangeError; catch: return null;
\* finally setIsLoading(false)
CreateInvalid(booking) ==
    /\ isInitialized
    /\ ~booking.valid
    /\ isLoadingCal' = FALSE
    /\ calRet' = [op |-> "createCalendarEvent", date |-> booking.date, event |-> <<>>]
    /\ UNCHANGED <<tz, now, isInitialized, store, creates, msgVars, smsVars>>

\* a variant without the readiness check
CreateStartUnchecked(booking) ==
    /\ booking.valid
    /\ Len(store) + Len(creates) < MaxEvents
    /\ isLoadingCal' = TRUE
    /\ creates' = Append(creates, [date |-> booking.date, event |-> BuildEvent(booking)])
    /\ calRet' = NoCalRet
    /\ UNCHANGED <<tz, now, isInitialized, store, msgVars, smsVars>>

\* createCalendarEvent up to its await: setIsLoading(true), the event is
\* built, the simulated API call starts
CreateStart(booking) ==
    /\ isInitialized
    /\ booking.valid
    /\ Len(store) + Len(creates) < MaxEvents
    /\ isLoadingCal' = TRUE
    /\ creates' = Append(creates, [date |-> booking.date, event |-> BuildEvent(booking)])
    /\ calRet' = NoCalRet
    /\ UNCHANGED <<tz, now, isInitialized, store, msgVars, smsVars>>

\* a variant that writes back a list read before the await (here: the empty
\* list of a first call), losing what was stored meanwhile
CreateFinishStaleList(i) ==
    /\ now > creates[i].event.id
    /\ store' = <<creates[i].event>>
    /\ isLoadingCal' = FALSE
    /\ creates' = RemoveAt(creates, i)
    /\ calRet' = [op |-> "createCalendarEvent", date |-> creates[i].date,
                  event |-> <<creates[i].event>>]
    /\ UNCHANGED <<tz, now, isInitialized, msgVars, smsVars>>

\* after the await (a timeout, so the clock has moved on): the list is
\* read, the event pushed, the list written back; return event; finally
\* setIsLoading(false)
CreateFinish(i) ==
    /\ now > creates[i].event.id
    /\ store' = Append(store, creates[i].event)
    /\ isLoadingCal' = FALSE
    /\ creates' = RemoveAt(creates, i)
    /\ calRet' = [op |-> "createCalendarEvent", date |-> creates[i].date,
                  event |-> <<creates[i].event>>]
    /\ UNCHANGED <<tz, now, isInitialized, msgVars, smsVars>>

\* after the await, localStorage throws (setItem over quota, getItem
\* refused): catch: return null; finally setIsLoading(false)
CreateFault(i) ==
    /\ now > creates[i].event.id
    /\ isLoadingCal' = FALSE
    /\ creates' = RemoveAt(creates, i)
    /\ calRet' = [op |-> "createCalendarEvent", date |-> creates[i].date, event |-> <<>>]
    /\ UNCHANGED <<tz, now, isInitialized, store, msgVars, smsVars>>

\* getEvents(startDate, endDate)
GetEvents(startDate, endDate) ==
    /\ calRet' = [op |-> "getEvents", events |-> getEvents(store, startDate, endDate)]
    /\ UNCHANGED <<tz, now, isInitialized, isLoadingCal, store, creates, msgVars, smsVars>>

\* checkForConflicts(date, time, duration)
CheckForConflicts(date, time, duration) ==
    /\ calRet' = [op |-> "checkForConflicts",
                  conflict |-> checkForConflicts(store, date, time, duration)]
    /\ UNCHANGED <<tz, now, isInitialized, isLoadingCal, store, creates, msgVars, smsVars>>

\* getEvents when localStorage.getItem or JSON.parse throws: catch, return []
GetEventsFault ==
    /\ calRet' = [op |-> "getEvents", events |-> <<>>]
    /\ UNCHANGED <<tz, now, isInitialized, isLoadingCal, store, creates, msgVars, smsVars>>

\* checkForConflicts when the list cannot be read: its getEvents call
\* catches the fault and returns [], and [].some(...) is false
CheckForConflictsFault ==
    /\ calRet' = [op |-> "checkForConflicts", conflict |-> FALSE]
    /\ UNCHANGED <<tz, now, isInitialized, isLoadingCal, store, creates, msgVars, smsVars>>

Bookings ==
    [date : Dates, time : Times, duration : BookingDurations, valid : {TRUE}]
    \cup {[date |-> 1, time |-> 9, duration |-> <<>>, valid |-> FALSE]}

----------------------------------------------------------------------------
(* OpenPhoneService: the message transport client.  A settled request is   *)
(* its HTTP status, or 0 when no response arrived (network error, timeout). *)

\* the outcomes of a request to the provider
Statuses == {0, 200, 201, 202, 204, 400, 500}
\* the provider's body on a GET: the data field is absent or holds a list
Bodies == {"absent", "list"}
\* the list the provider sends in its data field
ProviderData == <<"raw1", "raw2">>

\* axios resolves the promise on a 2xx status (its default validateStatus)
\* and rejects it on every other status and when no response arrived
AxiosResolves(status) == status >= 200 /\ status < 300

NoTRet == [op |-> "none"]

\* catch (error) { console.error(...); throw new Error(message) }
Thrown(op, status, message) ==
    [op |-> op, status |-> status, raised |-> TRUE, error |-> message]

\* sendSMS(to, message), by the outcome of axios.post
sendSMS(status) ==
    IF AxiosResolves(status)
    THEN [op |-> "sendSMS", status |-> status, raised |-> FALSE,
          value |-> (status = 200 \/ status = 201)]
    ELSE Thrown("sendSMS", status, "Failed to send SMS")

\* getMessages(limit), by the outcome of axios.get: response.data?.data || []
getMessages(status, body) ==
    IF AxiosResolves(status)
    THEN [op |-> "getMessages", status |-> status, raised |-> FALSE,
          list |-> (IF body = "list" THEN ProviderData ELSE <<>>)]
    ELSE Thrown("getMessages", status, "Failed to fetch messages")

\* sendSMS or getMessages is called: the request is issued
TransportCall(op) ==
    /\ Len(transport) < MaxTransport
    /\ transport' = Append(transport, op)
    /\ UNCHANGED <<tRet, msgVars, calVars>>

\* the request of a sendSMS call settles; the call returns or throws
SendSMSSettle(i, status) ==
    /\ transport[i] = "sendSMS"
    /\ transport' = RemoveAt(transport, i)
    /\ tRet' = sendSMS(status)
    /\ UNCHANGED <<msgVars, calVars>>

\* the request of a getMessages call settles; the call returns or throws
GetMessagesSettle(i, status, body) ==
    /\ transport[i] = "getMessages"
    /\ transport' = RemoveAt(transport, i)
    /\ tRet' = getMessages(status, body)
    /\ UNCHANGED <<msgVars, calVars>>

NextSms ==
    \/ \E op \in {"sendSMS", "getMessages"} : TransportCall(op)
    \/ \E i \in 1..Len(transport) : \E st \in Statuses : SendSMSSettle(i, st)
    \/ \E i \in 1..Len(transport) : \E st \in Statuses : \E b \in Bodies :
          GetMessagesSettle(i, st, b)

----------------------------------------------------------------------------
InitMsg ==
    /\ backend = <<>>
    /\ messages = <<>>
    /\ isLoading = TRUE
    /\ isSending = FALSE
    /\ phase = "rendered"
    /\ loads = <<>>
    /\ sends = <<>>
    /\ marks = <<>>
    /\ ret = NoRet

InitCal ==
    /\ tz \in TzOffsets
    /\ now = 0
    /\ isInitialized = FALSE
    /\ isLoadingCal = FALSE
    /\ store = <<>>
    /\ creates = <<>>
    /\ calRet = NoCalRet

InitSms ==
    /\ transport = <<>>
    /\ tRet = NoTRet

Init == InitMsg /\ InitCal /\ InitSms

\* the message hook does not read the time zone: its runs start in UTC
InitUtc == Init /\ tz = 0

NextMsg ==
    \/ BackendReceive
    \/ Activate
    \/ Tick
    \/ Deactivate
    \/ Refresh
    \/ \E i \in 1..Len(loads) : LoadServe(i)
    \/ \E i \in 1..Len(loads) : LoadApply(i)
    \/ \E i \in 1..Len(loads) : \E o \in LoadOutcomes : LoadEmpty(i, o)
    \/ SendStart
    \/ \E i \in 1..Len(sends) : SendPostOk(i)
    \/ \E i \in 1..Len(sends) : \E o \in PostOutcomes : SendPostFail(i, o)
    \/ \E i \in 1..Len(sends) : SendReloadServe(i)
    \/ \E i \in 1..Len(sends) : \E o \in LoadOutcomes : SendReloadDone(i, o)
    \/ \E id \in 1..MaxBackend : MarkStart(id)
    \/ \E i \in 1..Len(marks) : \E o \in PostOutcomes : MarkReturn(i, o)

NextCal ==
    \/ Initialize
    \/ ClockTick
    \/ \E b \in Bookings : CreateNotReady(b)
    \/ \E b \in Bookings : CreateInvalid(b)
    \/ \E b \in Bookings : CreateStart(b)
    \/ \E i \in 1..Len(creates) : CreateFinish(i)
    \/ \E i \in 1..Len(creates) : CreateFault(i)
    \/ \E a \in Dates : \E b \in Dates : GetEvents(a, b)
    \/ \E d \in Dates : \E t \in Times : \E h \in ConflictDurations : CheckForConflicts(d, t, h)
    \/ GetEventsFault
    \/ CheckForConflictsFault

\* the polling lifecycle alone: the effect, the timer, the loads and the backend
NextPoll ==
    \/ BackendReceive
    \/ Activate
    \/ Tick
    \/ Deactivate
    \/ Refresh
    \/ \E i \in 1..Len(loads) : LoadServe(i)
    \/ \E i \in 1..Len(loads) : LoadApply(i)
    \/ \E i \in 1..Len(loads) : \E o \in LoadOutcomes : LoadEmpty(i, o)

\* sendMessage in a hook that stays active, with the loads it runs beside
\* (the effect's and the UI's; the timer's are the same calls) and the backend
NextSend ==
    \/ BackendReceive
    \/ Activate
    \/ Refresh
    \/ \E i \in 1..Len(loads) : LoadServe(i)
    \/ \E i \in 1..Len(loads) : LoadApply(i)
    \/ \E i \in 1..Len(loads) : \E o \in LoadOutcomes : LoadEmpty(i, o)
    \/ SendStart
    \/ \E i \in 1..Len(sends) : SendPostOk(i)
    \/ \E i \in 1..Len(sends) : \E o \in PostOutcomes : SendPostFail(i, o)
    \/ \E i \in 1..Len(sends) : SendReloadServe(i)
    \/ \E i \in 1..Len(sends) : \E o \in LoadOutcomes : SendReloadDone(i, o)

\* the effect and its timer alone: every load but the first is the timer's
NextTimer ==
    \/ BackendReceive
    \/ Activate
    \/ Tick
    \/ Deactivate
    \/ \E i \in 1..Len(loads) : LoadServe(i)
    \/ \E i \in 1..Len(loads) : LoadApply(i)
    \/ \E i \in 1..Len(loads) : \E o \in LoadOutcomes : LoadEmpty(i, o)

Next == NextMsg \/ NextCal \/ NextSms

\* the three components share no state: each one run on its own, from the
\* initial state of the other two
NextApart ==
    \/ InitCal /\ tz = 0 /\ InitSms /\ NextMsg
    \/ InitMsg /\ InitSms /\ NextCal
    \/ InitMsg /\ InitCal /\ tz = 0 /\ NextSms

\* the two hooks together
Spec == Init /\ [][Next]_vars
\* the message sync hook and its backend (the calendar idle, in UTC)
SpecMsg == InitUtc /\ [][NextMsg]_vars
\* loadMessages and the polling effect alone
SpecPoll == InitUtc /\ [][NextPoll]_vars
\* the effect's first load and the timer's loads
SpecTimer == InitUtc /\ [][NextTimer]_vars
\* sendMessage and the loads it runs beside
SpecSend == InitUtc /\ [][NextSend]_vars
\* each component on its own
SpecApart == Init /\ [][NextApart]_vars
\* the message transport client (the hooks idle)
SpecSms == InitUtc /\ [][NextSms]_vars
\* the calendar stub (the message hook idle)
SpecCal == Init /\ [][NextCal]_vars
\* the polling lifecycle under the scheduling the runtime gives it: an
\* interval that is set keeps firing (setInterval), and every fetch settles
FairSpecPoll ==
    /\ SpecPoll
    /\ SF_vars(Tick)
    /\ WF_vars(\E i \in 1..Len(loads) : LoadApply(i) \/ \E o \in LoadOutcomes : LoadEmpty(i, o))

----------------------------------------------------------------------------
(* The claims *)

ReadIn(list, id) == \E k \in 1..Len(list) : list[k].id = id /\ IsRead(list[k])

UnreadIds(list) ==
    {list[k].id : k \in {j \in 1..Len(list) : list[j].direction = "inbound" /\ ~IsRead(list[j])}}

\* the list shows the id with read false or absent
UnreadIn(list, id) == \E k \in 1..Len(list) : list[k].id = id /\ ~IsRead(list[k])

\* C1: a message's read flag only moves from false to true: a list that
\* shows an id with read = true is never followed by a list that shows the
\* same id with read false or absent, under any interleaving of loadMessages,
\* sendMessage and markAsRead.
ReadIsMonotone ==
    [][\A id \in 1..MaxBackend : ReadIn(messages, id) => ~UnreadIn(messages', id)]_vars

\* C2: when markAsRead(id) completes and its POST returned a response (2xx
\* or not), every message with that id in the list has read = true and the
\* unread count does not include it; no load was started for it, and a
\* rejected request left the backend as it was (so nothing confirms the flag).
MarkAsReadSetsReadLocally ==
    [][\A i \in 1..Len(marks) : \A o \in {"ok", "bad"} :
          MarkReturn(i, o) =>
            /\ \A k \in 1..Len(messages') :
                  messages'[k].id = marks[i].id => IsRead(messages'[k])
            /\ marks[i].id \notin UnreadIds(messages')
            /\ getUnreadCount(messages') = Cardinality(UnreadIds(messages') \ {marks[i].id})
            /\ loads' = loads
            /\ o = "bad" => backend' = backend]_vars

\* C2 witness: markAsRead has just completed on a rejected POST; the list
\* shows an inbound message read that the backend still holds unread.
MarkAsReadRejectedWitness ==
    /\ ret.op = "markAsRead" /\ ret.http = "bad"
    /\ \E k \in 1..Len(messages) : \E j \in 1..Len(backend) :
          /\ messages[k].direction = "inbound"
          /\ IsRead(messages[k])
          /\ backend[j].id = messages[k].id
          /\ ~IsRead(backend[j])
    /\ getUnreadCount(messages) < getUnreadCount(backend)

\* the unread count of a list showing the inbound view v
ViewUnread(v) == Cardinality({p \in v : ~p[2]})

\* a sendMessage call finishes in this step: the call and the list it leaves
SendFinishes(i) ==
    \/ \E o \in PostOutcomes : SendPostFail(i, o)
    \/ \E o \in LoadOutcomes : SendReloadDone(i, o)

\* C3 as stated: whatever the list and whatever the outcome of the POST and
\* of the reload, the unread count after sendMessage equals the count before
\* it, provided the backend's inbound messages and read flags did not change
\* (and, the call being taken by itself, no other call wrote the list).
SendKeepsUnreadCount ==
    [][\A i \in 1..Len(sends) :
          SendFinishes(i) /\ sends[i].quiet /\ InboundView(backend') = sends[i].inb0
            => getUnreadCount(messages') = ViewUnread(sends[i].view0)]_vars

\* C3 amended: the count after equals the count before when the POST failed
\* and no other call wrote the list meanwhile; when the POST succeeded, it
\* does so provided also that the reload succeeded and that the list showed
\* the backend's inbound messages and read flags when the call started.
SendKeepsUnreadCountWhenSynced ==
    [][\A i \in 1..Len(sends) :
          /\ \A o \in PostOutcomes :
                SendPostFail(i, o) /\ sends[i].quiet
                  => getUnreadCount(messages') = ViewUnread(sends[i].view0)
          /\ SendReloadDone(i, "ok") /\ sends[i].quiet
                /\ InboundView(backend') = sends[i].inb0
                /\ sends[i].view0 = sends[i].inb0
                  => getUnreadCount(messages') = ViewUnread(sends[i].view0)]_vars

\* C3 witness: a reply was sent and reloaded; the list now holds the outbound
\* message next to an unread inbound one, and the count is the inbound one's.
SendReloadedWitness ==
    /\ ret.op = "sendMessage" /\ ret.http = "ok"
    /\ \E k \in 1..Len(messages) : messages[k].direction = "outbound" /\ ~IsRead(messages[k])
    /\ getUnreadCount(messages) = 1

\* C4: sendMessage on a 2xx POST reloads the whole list (nothing is appended
\* locally), signals success and does not raise; on a non-2xx POST or a
\* transport failure it signals failure, raises and leaves the list as it
\* was; isSending is true while a call is running and false once it finished.
SendMessageOutcome ==
    [][/\ \A i \in 1..Len(sends) :
            /\ SendPostOk(i) => messages' = messages /\ sends'[i].st = "fetch"
            /\ \A o \in LoadOutcomes :
                  SendReloadDone(i, o) =>
                    /\ messages' = (IF o = "ok" THEN sends[i].payload ELSE <<>>)
                    /\ ret'.toast = "success" /\ ~ret'.raised
                    /\ ~isSending'
            /\ \A o \in PostOutcomes :
                  SendPostFail(i, o) =>
                    /\ ret'.toast = "error" /\ ret'.raised
                    /\ messages' = messages
                    /\ ~isSending'
       /\ SendStart => isSending'
       /\ sends' # <<>> => isSending']_vars

NumTimerLoads(ls) == Cardinality({k \in 1..Len(ls) : ls[k].byTimer})

\* C5: activation starts one load at once; while the hook is active each
\* tick of the timer starts one load, and a hook that stays active starts
\* loads again and again; once deactivated the timer starts no load.
PollingLifecycle ==
    /\ [][Activate => Len(loads') = Len(loads) + 1 /\ ~loads'[Len(loads')].byTimer]_vars
    /\ [][NumTimerLoads(loads') > NumTimerLoads(loads)
            => /\ phase = "active"
               /\ Len(loads') = Len(loads) + 1
               /\ loads'[Len(loads')] = NewLoad(TRUE)]_vars
    /\ [][phase = "inactive"
            => phase' = "inactive" /\ NumTimerLoads(loads') <= NumTimerLoads(loads)]_vars
    /\ (<>[](phase = "active") => []<><<Tick>>_vars)

\* C5 witness: the timer started a load, and the hook was then deactivated
\* with that load still in flight.
PollingWitness ==
    /\ phase = "inactive"
    /\ NumTimerLoads(loads) > 0

\* C6: loadMessages on a non-2xx status or a transport failure empties the
\* list, whatever it held; on success the list is exactly the backend's
\* messages array, in its order (empty when the field is absent); in every
\* case isLoading becomes false and nothing is raised.
LoadMessagesOutcome ==
    [][\A i \in 1..Len(loads) :
          /\ LoadServe(i) => loads'[i].payload = backend
          /\ LoadApply(i) =>
                messages' = loads[i].payload /\ ~isLoading' /\ ~ret'.raised
          /\ \A o \in LoadOutcomes \ {"ok"} :
                LoadEmpty(i, o) => messages' = <<>> /\ ~isLoading' /\ ~ret'.raised]_vars

\* C6 witness: a load has just failed and left the list empty although the
\* backend holds messages.
LoadFailedWitness ==
    /\ ret.op = "loadMessages" /\ ret.http \in {"bad", "neterr"}
    /\ messages = <<>> /\ ~isLoading
    /\ backend # <<>>

\* the fields of a message other than read
SameButRead(m1, m2) ==
    /\ DOMAIN m1 \ {"read"} = DOMAIN m2 \ {"read"}
    /\ \A f \in DOMAIN m1 \ {"read"} : m1[f] = m2[f]

\* C7: markAsRead(id) changes nothing but the read flag of the matching
\* message: the list keeps its length and order, the matching message keeps
\* its direction and other fields, every other message is untouched; and no
\* hook operation changes the direction of a message the backend holds or
\* removes one from it.
MarkAsReadFrame ==
    [][/\ \A i \in 1..Len(marks) : \A o \in PostOutcomes :
            MarkReturn(i, o) =>
              /\ Len(messages') = Len(messages)
              /\ \A k \in 1..Len(messages) :
                    IF messages[k].id = marks[i].id
                    THEN SameButRead(messages'[k], messages[k])
                    ELSE messages'[k] = messages[k]
       /\ Len(backend') >= Len(backend)
       /\ \A k \in 1..Len(backend) : SameButRead(backend'[k], backend[k])]_vars

\* the local calendar day of an instant
LocalDate(instant) == (instant + tz) \div HoursPerDay

\* C8: checkConflict(date, time, duration) is true exactly when some
\* persisted event of that day overlaps [start, start + duration) under
\* proposedStart < existingEnd and proposedEnd > existingStart, for every
\* proposed local date and time.
CheckConflictIffOverlap ==
    [][\A d \in Dates : \A t \in Times : \A h \in ConflictDurations :
          CheckForConflicts(d, t, h) =>
            calRet'.conflict =
              (\E k \in 1..Len(store) :
                  /\ LocalDate(ParseISO(store[k].start)) = d
                  /\ ParseLocal(d, t) < ParseISO(store[k].end)
                  /\ ParseLocal(d, t) + h > ParseISO(store[k].start))]_vars

\* C9: once createEvent has returned an event, getEvents(startDate, endDate)
\* returns it for every range with startDate <= booking date <= endDate.
CreateThenGetEvents ==
    calRet.op = "createCalendarEvent" /\ calRet.event # <<>>
      => \A a \in Dates : \A b \in Dates :
            a <= calRet.date /\ calRet.date <= b
              => \E k \in 1..Len(getEvents(store, a, b)) :
                    getEvents(store, a, b)[k] = calRet.event[1]

\* C10: createEvent called while the readiness flag is false returns null,
\* whatever the input, and leaves the persisted list and isLoading alone.
CreateNotReadyReturnsNull ==
    [][~isInitialized /\ (creates' # creates \/ calRet'.op = "createCalendarEvent")
          => /\ calRet' \in [op : {"createCalendarEvent"}, date : Dates, event : {<<>>}]
             /\ store' = store
             /\ isLoadingCal' = isLoadingCal
             /\ creates' = creates]_vars

\* C10 witness: a call made before initialization has just returned null.
CreateNotReadyWitness ==
    /\ ~isInitialized
    /\ calRet.op = "createCalendarEvent" /\ calRet.event = <<>>
    /\ store = <<>> /\ ~isLoadingCal

\* an event's start is strictly before its end
StartBeforeEnd(event) == ParseISO(event.start) < ParseISO(event.end)

\* C11: every event createEvent persists or returns has start < end,
\* whatever the booking's duration (absent, zero or negative).
EventsStartBeforeEnd ==
    /\ \A k \in 1..Len(store) : StartBeforeEnd(store[k])
    /\ calRet.op = "createCalendarEvent" /\ calRet.event # <<>>
         => StartBeforeEnd(calRet.event[1])

\* the calendar step just taken returned an event from createCalendarEvent
ReturnedEvent(r) == r.op = "createCalendarEvent" /\ r.event # <<>>

\* C12: the persisted list is append-only under every interleaving of
\* createEvent, getEvents and checkConflict: a createEvent that returns an
\* event appends exactly that event at the end, every other step (a
\* createEvent returning null, a query) leaves the list as it is, and no
\* stored event is removed, moved or altered, also with two calls in flight.
StoreAppendOnly ==
    [][/\ Len(store') >= Len(store)
       /\ \A k \in 1..Len(store) : store'[k] = store[k]
       /\ ReturnedEvent(calRet') => store' = Append(store, calRet'.event[1])
       /\ ~ReturnedEvent(calRet') => store' = store
       /\ \A i \in 1..Len(creates) :
             /\ CreateFinish(i) => ReturnedEvent(calRet') /\ calRet'.event[1] = creates[i].event
             /\ CreateFault(i) => ~ReturnedEvent(calRet')
       /\ calRet'.op \in {"getEvents", "checkForConflicts"} => store' = store]_vars

\* C12 witness: of two createEvent calls in flight together, the second has
\* just returned its event, appended after the first one's.
TwoCreatesAppendedWitness ==
    /\ Len(store) = 2
    /\ ReturnedEvent(calRet) /\ calRet.event[1] = store[2]
    /\ store[1].id = store[2].id
    /\ store[1] # store[2]

\* a 2xx HTTP status
Is2xx(status) == status \in 200..299

\* C13: sendSMS returns true for every 2xx status of the provider POST
\* (200, 201, 202, 204, ...), and raises the generic 'Failed to send SMS'
\* error whenever the request fails or the status is not 2xx.
SendSMSTrueOnEvery2xx ==
    tRet.op = "sendSMS" =>
        IF Is2xx(tRet.status)
        THEN ~tRet.raised /\ tRet.value = TRUE
        ELSE tRet.raised /\ tRet.error = "Failed to send SMS"

\* C14 as stated: sendMessage is the one operation that raises; loadMessages,
\* markAsRead, the calendar operations and the transport client's sendSMS and
\* getMessages return a safe default and never raise.
OnlySendMessageRaises ==
    /\ ret.raised => ret.op = "sendMessage"
    /\ tRet.op # "none" => ~tRet.raised

\* C14 amended: among the hooks' operations sendMessage is the only one that
\* raises, and it raises exactly when its POST fails; loadMessages and
\* markAsRead swallow every fault (the list emptied, resp. left alone), and
\* createEvent, getEvents and checkConflict return null, [] and false on a
\* fault; the transport client's sendSMS and getMessages do raise, a generic
\* error, on every failed request and on every non-2xx status.
FaultsAtTheBoundary ==
    [][/\ ret'.raised => ret'.op = "sendMessage" /\ ret'.http \in {"bad", "neterr"}
       /\ \A i \in 1..Len(loads) : \A o \in {"bad", "neterr"} :
             LoadEmpty(i, o) => ~ret'.raised /\ messages' = <<>>
       /\ \A i \in 1..Len(marks) : \A o \in {"bad", "neterr"} :
             MarkReturn(i, o) => ~ret'.raised
       /\ \A i \in 1..Len(sends) : \A o \in {"bad", "neterr"} :
             SendPostFail(i, o) => ret'.raised
       /\ \A i \in 1..Len(creates) : CreateFault(i) => calRet'.event = <<>>
       /\ (~isInitialized \/ \E b \in Bookings : CreateInvalid(b))
             /\ calRet'.op = "createCalendarEvent" => calRet'.event = <<>>
       /\ GetEventsFault => calRet'.events = <<>>
       /\ CheckForConflictsFault => calRet'.conflict = FALSE
       /\ tRet' # tRet /\ tRet'.op # "none" =>
             IF Is2xx(tRet'.status)
             THEN ~tRet'.raised
             ELSE /\ tRet'.raised
                  /\ tRet'.error = (IF tRet'.op = "sendSMS" THEN "Failed to send SMS"
                                    ELSE "Failed to fetch messages")]_vars

\* C14 witness: a getMessages request answered 500 has just raised the
\* generic error to its caller.
TransportRaisedWitness ==
    /\ tRet.op = "getMessages" /\ tRet.status = 500
    /\ tRet.raised /\ tRet.error = "Failed to fetch messages"

\* whether a message counts as unread: inbound, read absent or false
CountsAsUnread(m) ==
    /\ m.direction = "inbound"
    /\ ("read" \notin DOMAIN m \/ m.read = FALSE)

\* the number of messages of a list that count as unread, one by one
RECURSIVE NumUnreadInbound(_)
NumUnreadInbound(list) ==
    IF list = <<>> THEN 0
    ELSE (IF CountsAsUnread(Head(list)) THEN 1 ELSE 0) + NumUnreadInbound(Tail(list))

\* C15: in every reachable state getUnreadCount is the number of messages of
\* the current list that are inbound with the read flag absent or false;
\* outbound messages never count, whatever their read flag.
UnreadCountIsInboundUnread ==
    getUnreadCount(messages) = NumUnreadInbound(messages)

\* C15 witness: the list holds a read inbound message and an outbound one
\* whose read flag is false, and the count is 0.
UnreadOutboundNotCountedWitness ==
    /\ \E k \in 1..Len(messages) :
          /\ messages[k].direction = "outbound"
          /\ "read" \in DOMAIN messages[k] /\ messages[k].read = FALSE
    /\ \E k \in 1..Len(messages) : messages[k].direction = "inbound" /\ IsRead(messages[k])
    /\ getUnreadCount(messages) = 0

\* the load record once the backend has answered it with the list b
Served(load, b) == [load EXCEPT !.st = "resp", !.payload = b]

\* C16: the timer does not serialize loads: a tick starts a load whatever
\* is in flight (up to the bound of the model); a load in flight is never
\* cancelled or discarded: it stays in flight, in issue order, until its own
\* continuation runs and writes the list; and the list is then the response
\* of the load applied last, whichever request was issued first.
LoadsNotSerialized ==
    /\ [](phase = "active" /\ InFlight < MaxInFlight => ENABLED Tick)
    /\ [][/\ Len(loads') >= Len(loads) - 1
          /\ Len(loads') > Len(loads) =>
                \A k \in 1..Len(loads) : loads'[k] = loads[k]
          /\ Len(loads') = Len(loads) =>
                \A k \in 1..Len(loads) :
                    loads'[k] = loads[k] \/ loads'[k] = Served(loads[k], backend)
          /\ Len(loads') < Len(loads) =>
                \E i \in 1..Len(loads) :
                    /\ loads' = RemoveAt(loads, i)
                    /\ ret'.op = "loadMessages"
                    /\ messages' = (IF ret'.http = "ok" THEN loads[i].payload ELSE <<>>)
          /\ \A i \in 1..Len(loads) : LoadApply(i) => messages' = loads[i].payload]_vars

\* C16 witness: the effect's first load (issued before every timer load) is
\* still in flight with an answer older than the list, next to a timer load
\* in flight, after a later-issued timer load has been applied: the first
\* load's answer will be applied last.
OvertakenLoadWitness ==
    /\ Len(loads) = 2
    /\ ~loads[1].byTimer /\ loads[1].st = "resp"
    /\ loads[2].byTimer
    /\ ret.op = "loadMessages" /\ ret.http = "ok"
    /\ Len(loads[1].payload) < Len(messages)

\* C17: a list installed by a load that completed while a markAsRead POST
\* was in flight is not lost: when markAsRead finishes, the list holds every
\* message of that load's result, in place, with nothing but the read flag
\* of the target patched.
LoadDuringMarkNotLost ==
    [][\A i \in 1..Len(marks) : \A o \in {"ok", "bad"} :
          MarkReturn(i, o) /\ ret.op = "loadMessages" /\ ret.http = "ok"
            => /\ Len(messages') = Len(messages)
               /\ \A k \in 1..Len(messages) : SameButRead(messages'[k], messages[k])]_vars

\* C18: isSending is true in every state in which a sendMessage call is in
\* flight, also when two calls overlap and one finishes before the other.
SendingWhileInFlight == sends # <<>> => isSending

\* C19: the identifiers of the persisted events are pairwise distinct after
\* any interleaving of createEvent calls, also for two calls that build
\* their events at the same clock millisecond.
EventIdsDistinct ==
    \A j \in 1..Len(store) : \A k \in 1..Len(store) :
        j # k => store[j].id # store[k].id
====
